---- MODULE Spec2Model ----
(***************************************************************************)
(* Model of ecommerce_app.py: the data-preparation pipeline of the         *)
(* Streamlit dashboard (load_df, safe_to_datetime, compute_sales, the      *)
(* sidebar filter form, the filters, the KPIs, safe_groupby_sum and the    *)
(* discount analysis), one script run after another over the table that    *)
(* st.cache_data keeps.                                                    *)
(*                                                                         *)
(* Representation.  A column name and a text cell are sequences of         *)
(* one-character strings, so that str.strip, str.lower, pd.to_datetime and *)
(* pd.to_numeric are computed on the characters.  A number is a            *)
(* fixed-point integer counting 1/Scale; float infinities and NaN are kept *)
(* as cells of their own ("inf", "null").  A timestamp counts ticks, with  *)
(* TicksPerDay ticks to a calendar day.  A DataFrame is an object of the   *)
(* heap, referred to by its index, so that an assignment df[col] = ...     *)
(* changes the object every name bound to it sees.                         *)
(***************************************************************************)
EXTENDS Integers, Sequences, FiniteSets, TLC

\* ------------------------------------------------------------------ bounds
MaxRows == 2
MaxDay == 2
TicksPerDay == 2
DaysPerMonth == 2

\* Fixed-point unit of the numbers: 1/Scale.
Scale == 10 * 100

\* ------------------------------------------------------------- characters
UpperChars == <<"A","B","C","D","E","F","G","H","I","J","K","L","M",
                "N","O","P","Q","R","S","T","U","V","W","X","Y","Z">>
LowerChars == <<"a","b","c","d","e","f","g","h","i","j","k","l","m",
                "n","o","p","q","r","s","t","u","v","w","x","y","z">>
Whitespace == {" ", "\t"}
DigitChars == <<"0","1","2","3","4","5","6","7","8","9">>

\* str.lower on one character
LowerChar(c) ==
  IF \E i \in 1..Len(UpperChars) : UpperChars[i] = c
  THEN LowerChars[CHOOSE i \in 1..Len(UpperChars) : UpperChars[i] = c]
  ELSE c

\* str.lower
lower(s) == [i \in 1..Len(s) |-> LowerChar(s[i])]

RECURSIVE lstrip(_)
lstrip(s) == IF s # <<>> /\ Head(s) \in Whitespace THEN lstrip(Tail(s)) ELSE s

RECURSIVE rstrip(_)
rstrip(s) ==
  IF s # <<>> /\ s[Len(s)] \in Whitespace
  THEN rstrip(SubSeq(s, 1, Len(s) - 1))
  ELSE s

\* str.strip
strip(s) == rstrip(lstrip(s))

\* A variant of NormalizeName that also turns inner spaces into underscores
NormalizeNameSnake(c) == [i \in 1..Len(lower(strip(c))) |->
                           IF lower(strip(c))[i] = " " THEN "_" ELSE lower(strip(c))[i]]

\* c.strip().lower()
NormalizeName(c) == lower(strip(c))

IsDigit(c) == \E i \in 1..Len(DigitChars) : DigitChars[i] = c
DigitVal(c) == (CHOOSE i \in 1..Len(DigitChars) : DigitChars[i] = c) - 1

RECURSIVE DigitsVal(_)
DigitsVal(s) ==
  IF s = <<>> THEN 0 ELSE 10 * DigitsVal(SubSeq(s, 1, Len(s) - 1)) + DigitVal(s[Len(s)])

AllDigits(s) == s # <<>> /\ \A i \in 1..Len(s) : IsDigit(s[i])

\* ----------------------------------------------------------- column names
c_order_date == <<"o","r","d","e","r","_","d","a","t","e">>
c_order_date_sp == <<"o","r","d","e","r"," ","d","a","t","e">>
c_date == <<"d","a","t","e">>
c_orderdate == <<"o","r","d","e","r","d","a","t","e">>
c_sales == <<"s","a","l","e","s">>
c_quantity == <<"q","u","a","n","t","i","t","y">>
c_price == <<"p","r","i","c","e">>
c_discount == <<"d","i","s","c","o","u","n","t">>
c_order_total == <<"o","r","d","e","r","_","t","o","t","a","l">>
c_amount == <<"a","m","o","u","n","t">>
c_total == <<"t","o","t","a","l">>
c_category == <<"c","a","t","e","g","o","r","y">>
c_region == <<"r","e","g","i","o","n">>
c_payment_method == <<"p","a","y","m","e","n","t","_","m","e","t","h","o","d">>
c_yearmonth == <<"y","e","a","r","m","o","n","t","h">>
c_discount_frac == <<"_","d","i","s","c","o","u","n","t","_","f","r","a","c">>
c_disc_bin == <<"_","d","i","s","c","_","b","i","n">>

\* date_candidates of the script
date_candidates == <<c_order_date, c_order_date_sp, c_date, c_orderdate>>

\* the fallback columns of compute_sales, in its order
fallbacks == <<c_order_total, c_amount, c_total>>

\* ------------------------------------------------------------------ cells
\* One shape for every cell: k the kind, n its number, s its text.
Null == [k |-> "null", n |-> 0, s |-> <<>>]
Num(n) == [k |-> "num", n |-> n, s |-> <<>>]
Whole(n) == Num(n * Scale)
Inf(sign) == [k |-> "inf", n |-> sign, s |-> <<>>]
Str(s) == [k |-> "str", n |-> 0, s |-> s]
Ts(n) == [k |-> "ts", n |-> n, s |-> <<>>]

notna(v) == v.k # "null"
IsNumeric(v) == v.k \in {"num", "inf"}

\* ------------------------------------------------------- float arithmetic
Sign(n) == IF n > 0 THEN 1 ELSE IF n < 0 THEN -1 ELSE 0

\* a * b: inf * 0 is NaN, NaN is absorbing
FMul(a, b) ==
  IF a.k = "null" \/ b.k = "null" THEN Null
  ELSE IF a.k = "num" /\ b.k = "num" THEN Num((a.n * b.n) \div Scale)
  ELSE IF Sign(a.n) * Sign(b.n) = 0 THEN Null
  ELSE Inf(Sign(a.n) * Sign(b.n))

\* a - b: inf - inf is NaN
FSub(a, b) ==
  IF a.k = "null" \/ b.k = "null" THEN Null
  ELSE IF a.k = "num" /\ b.k = "num" THEN Num(a.n - b.n)
  ELSE IF a.k = "inf" /\ b.k = "inf" THEN (IF a.n = b.n THEN Null ELSE a)
  ELSE IF a.k = "inf" THEN a
  ELSE Inf(-b.n)

\* a + b: inf + -inf is NaN
FAdd(a, b) ==
  IF a.k = "null" \/ b.k = "null" THEN Null
  ELSE IF a.k = "num" /\ b.k = "num" THEN Num(a.n + b.n)
  ELSE IF a.k = "inf" /\ b.k = "inf" THEN (IF a.n = b.n THEN a ELSE Null)
  ELSE IF a.k = "inf" THEN a
  ELSE b

\* a / 100
FDiv100(a) == IF a.k = "num" THEN Num(a.n \div 100) ELSE a

\* a > b: any comparison with NaN is False
FGt(a, b) ==
  IF a.k = "null" \/ b.k = "null" THEN FALSE
  ELSE IF a.k = "num" /\ b.k = "num" THEN a.n > b.n
  ELSE IF a.k = "inf" /\ b.k = "inf" THEN a.n > b.n
  ELSE IF a.k = "inf" THEN a.n > 0
  ELSE b.n < 0

FOne == Whole(1)
FZero == Whole(0)

\* ------------------------------------------------------------ conversions
c_inf == <<"i","n","f">>
c_NaT == <<"N","a","T">>

\* One value of pd.to_numeric(..., errors="coerce"): NaN for what is no number
to_numeric(v) ==
  IF v.k \in {"num", "inf"} THEN v
  ELSE IF v.k = "ts" THEN Num(v.n)
  ELSE IF v.k = "str" /\ AllDigits(v.s) THEN Whole(DigitsVal(v.s))
  ELSE IF v.k = "str" /\ lower(v.s) = c_inf THEN Inf(1)
  ELSE Null

\* .fillna(0)
fillna0(v) == IF notna(v) THEN v ELSE FZero

\* pd.to_numeric(series, errors="coerce").fillna(0)
numeric_or_zero(col) == [i \in 1..Len(col) |-> fillna0(to_numeric(col[i]))]

\* Position of the time separator "T" in a date text, 0 when there is none
SepPos(s) ==
  IF \E i \in 1..Len(s) : s[i] = "T"
  THEN CHOOSE i \in 1..Len(s) : s[i] = "T" /\ \A j \in 1..(i - 1) : s[j] # "T"
  ELSE 0

\* One value of pd.to_datetime(..., errors="coerce"): a date text is a day
\* number, or a day number, "T" and a tick of that day; NaT for the rest
to_datetime(v) ==
  IF v.k = "ts" THEN v
  ELSE IF v.k = "num" THEN Ts(v.n \div Scale)
  ELSE IF v.k # "str" THEN Null
  ELSE IF AllDigits(v.s) THEN Ts(DigitsVal(v.s) * TicksPerDay)
  ELSE LET p == SepPos(v.s)
           d == SubSeq(v.s, 1, p - 1)
           t == SubSeq(v.s, p + 1, Len(v.s))
       IN IF p > 0 /\ AllDigits(d) /\ AllDigits(t) /\ DigitsVal(t) < TicksPerDay
          THEN Ts(DigitsVal(d) * TicksPerDay + DigitsVal(t))
          ELSE Null

\* Timestamp.date(), as st.date_input keeps of a value it is given
DateOf(ts) == ts \div TicksPerDay

\* pd.to_datetime(a datetime.date): midnight of that day
DateToTs(d) == d * TicksPerDay

RECURSIVE IntToDigits(_)
IntToDigits(n) ==
  IF n < 10 THEN <<DigitChars[n + 1]>>
  ELSE IntToDigits(n \div 10) \o <<DigitChars[(n % 10) + 1]>>

\* .dt.to_period("M").astype(str) of one value
YearMonthOf(v) ==
  IF v.k = "ts" THEN Str(IntToDigits(DateOf(v.n) \div DaysPerMonth)) ELSE Str(c_NaT)

\* ----------------------------------------------------------------- tables
\* A DataFrame: its columns in order, the index label of each row, and each
\* row as a function from the column names to cells.
NoTable == [cols |-> <<>>, idx |-> <<>>, rows |-> <<>>]

Range(s) == {s[i] : i \in 1..Len(s)}
HasCol(t, c) == c \in Range(t.cols)
NRows(t) == Len(t.rows)
Col(t, c) == [i \in 1..NRows(t) |-> t.rows[i][c]]

\* df[c] = vals: the column is overwritten, or added as the last column
SetCol(t, c, vals) ==
  [cols |-> IF HasCol(t, c) THEN t.cols ELSE Append(t.cols, c),
   idx |-> t.idx,
   rows |-> [i \in 1..NRows(t) |->
              [x \in Range(t.cols) \cup {c} |-> IF x = c THEN vals[i] ELSE t.rows[i][x]]]]

Const(t, v) == [i \in 1..NRows(t) |-> v]

RECURSIVE SelectSeq2(_, _)
\* The positions of the sequence keep, in order, whose value is TRUE
SelectSeq2(keep, i) ==
  IF i > Len(keep) THEN <<>>
  ELSE (IF keep[i] THEN <<i>> ELSE <<>>) \o SelectSeq2(keep, i + 1)

\* df[mask]: a new frame of the rows whose mask is True, labels kept
BoolIndex(t, mask) ==
  LET pos == SelectSeq2(mask, 1)
  IN [cols |-> t.cols,
      idx |-> [j \in 1..Len(pos) |-> t.idx[pos[j]]],
      rows |-> [j \in 1..Len(pos) |-> t.rows[pos[j]]]]

\* ---------------------------------------------------------------- load_df
\* The file read_csv reads: the header as written and the rows by position.
\* load_df keeps the cells and normalizes the names.
load_df(file) ==
  LET names == [j \in 1..Len(file.header) |-> NormalizeName(file.header[j])]
  IN [cols |-> names,
      idx |-> [i \in 1..Len(file.rows) |-> i - 1],
      rows |-> [i \in 1..Len(file.rows) |->
                 [x \in Range(names) |->
                    file.rows[i][CHOOSE j \in 1..Len(names) : names[j] = x]]]]

\* ------------------------------------------------------- safe_to_datetime
RECURSIVE safe_to_datetime_from(_, _, _, _)
safe_to_datetime_from(t, candidates, new_col, i) ==
  IF i > Len(candidates) THEN SetCol(t, new_col, Const(t, Null))
  ELSE IF HasCol(t, candidates[i])
       THEN SetCol(t, new_col,
                   [r \in 1..NRows(t) |-> to_datetime(t.rows[r][candidates[i]])])
       ELSE safe_to_datetime_from(t, candidates, new_col, i + 1)

\* The table df is after safe_to_datetime(df, candidates, new_col)
safe_to_datetime(t, candidates, new_col) ==
  safe_to_datetime_from(t, candidates, new_col, 1)

\* ---------------------------------------------------------- compute_sales
RECURSIVE FMaxFrom(_, _)
FMaxFrom(s, i) ==
  IF i > Len(s) THEN Null
  ELSE LET rest == FMaxFrom(s, i + 1)
       IN IF rest.k = "null" \/ FGt(s[i], rest) THEN s[i] ELSE rest

\* Series.max(): NaN for an empty series
FMax(s) == FMaxFrom(s, 1)

\* A variant of percent_to_fraction that decides row by row
percent_to_fraction_rowwise(d) ==
  [i \in 1..Len(d) |-> IF FGt(d[i], FOne) THEN FDiv100(d[i]) ELSE d[i]]

\* "if d.max() > 1: d = d / 100.0", on the whole series
percent_to_fraction(d) ==
  IF FGt(FMax(d), FOne) THEN [i \in 1..Len(d) |-> FDiv100(d[i])] ELSE d

\* The series d of compute_sales: the discount each row's sales is derived with
sales_discount(t) == percent_to_fraction(numeric_or_zero(Col(t, c_discount)))

RECURSIVE FirstFallback(_, _)
\* The first fallback column of the table, <<>> when it has none
FirstFallback(t, i) ==
  IF i > Len(fallbacks) THEN <<>>
  ELSE IF HasCol(t, fallbacks[i]) THEN fallbacks[i]
  ELSE FirstFallback(t, i + 1)

\* The column compute_sales assigns to df["sales"]
sales_values(t) ==
  IF HasCol(t, c_sales) THEN numeric_or_zero(Col(t, c_sales))
  ELSE IF HasCol(t, c_quantity) /\ HasCol(t, c_price)
  THEN LET q == numeric_or_zero(Col(t, c_quantity))
           p == numeric_or_zero(Col(t, c_price))
       IN IF HasCol(t, c_discount)
          THEN LET d == sales_discount(t)
               IN [i \in 1..NRows(t) |-> FMul(FMul(q[i], p[i]), FSub(FOne, d[i]))]
          ELSE [i \in 1..NRows(t) |-> FMul(q[i], p[i])]
  ELSE LET f == FirstFallback(t, 1)
       IN IF f # <<>> THEN numeric_or_zero(Col(t, f)) ELSE Const(t, FZero)

\* A variant of compute_sales that also stores the coerced quantity
compute_sales_coercing(t) ==
  IF HasCol(t, c_quantity)
  THEN SetCol(SetCol(t, c_quantity, numeric_or_zero(Col(t, c_quantity))), c_sales, sales_values(t))
  ELSE SetCol(t, c_sales, sales_values(t))

\* The table df is after compute_sales(df)
compute_sales(t) == SetCol(t, c_sales, sales_values(t))

\* df["yearmonth"] = df["order_date"].dt.to_period("M").astype(str)
add_yearmonth(t) ==
  SetCol(t, c_yearmonth, [i \in 1..NRows(t) |-> YearMonthOf(t.rows[i][c_order_date])])

\* ------------------------------------------------------- safe_groupby_sum
RECURSIVE FSumFrom(_, _)
FSumFrom(s, i) ==
  IF i > Len(s) THEN FZero
  ELSE IF s[i].k = "null" THEN FSumFrom(s, i + 1)
  ELSE FAdd(s[i], FSumFrom(s, i + 1))

\* Series.sum(): NaN is skipped, the sum of nothing is 0
FSum(s) == FSumFrom(s, 1)

\* The characters in code-point order
Alphabet == <<"\t", " ">> \o DigitChars \o UpperChars \o <<"_">> \o LowerChars
CharOrd(c) == CHOOSE i \in 1..Len(Alphabet) : Alphabet[i] = c

RECURSIVE TextLt(_, _)
TextLt(a, b) ==
  IF b = <<>> THEN FALSE
  ELSE IF a = <<>> THEN TRUE
  ELSE IF Head(a) = Head(b) THEN TextLt(Tail(a), Tail(b))
  ELSE CharOrd(Head(a)) < CharOrd(Head(b))

\* The order groupby sorts its keys by
KeyLt(a, b) == IF a.k = "str" /\ b.k = "str" THEN TextLt(a.s, b.s) ELSE FGt(b, a)

RECURSIVE SortKeys(_)
SortKeys(K) ==
  IF K = {} THEN <<>>
  ELSE LET m == CHOOSE k \in K : \A o \in K : ~KeyLt(o, k)
       IN <<m>> \o SortKeys(K \ {m})

\* The values of column col in the rows whose column by is key
GroupValues(t, by, col, key) ==
  LET pos == SelectSeq2([i \in 1..NRows(t) |-> t.rows[i][by] = key], 1)
  IN [j \in 1..Len(pos) |-> t.rows[pos[j]][col]]

\* A variant of safe_groupby_sum that keeps the first value of each group
safe_groupby_first(t, by, col) ==
  IF ~HasCol(t, by) THEN <<>>
  ELSE LET keys == SortKeys({v \in Range(Col(t, by)) : notna(v)})
       IN [j \in 1..Len(keys) |->
            [key |-> keys[j], sum |-> GroupValues(t, by, col, keys[j])[1]]]

\* safe_groupby_sum(df, by, col): the rows of the frame it returns, one per
\* key, the keys sorted and null keys dropped
safe_groupby_sum(t, by, col) ==
  IF ~HasCol(t, by) THEN <<>>
  ELSE LET keys == SortKeys({v \in Range(Col(t, by)) : notna(v)})
       IN [j \in 1..Len(keys) |->
            [key |-> keys[j], sum |-> FSum(GroupValues(t, by, col, keys[j]))]]

RECURSIVE sort_values_desc(_)
\* .sort_values("sales", ascending=False): NaN last, ties in the order they had
sort_values_desc(g) ==
  IF g = <<>> THEN <<>>
  ELSE LET top == CHOOSE i \in 1..Len(g) :
                    /\ \A j \in 1..Len(g) :
                         ~(notna(g[j].sum) /\ (g[i].sum.k = "null" \/ FGt(g[j].sum, g[i].sum)))
                    /\ \A j \in 1..(i - 1) :
                         notna(g[i].sum) /\ (g[j].sum.k = "null" \/ FGt(g[i].sum, g[j].sum))
       IN <<g[top]>> \o sort_values_desc(SubSeq(g, 1, top - 1) \o SubSeq(g, top + 1, Len(g)))

\* ------------------------------------------------------------ filter form
\* date_range is the tuple of days st.date_input returns, <<>> for None;
\* cats, regions and payments are the values picked in each multiselect.
NoSelection == [date_range |-> <<>>, cats |-> {}, regions |-> {}, payments |-> {}]

TsValues(t) == {v.n : v \in {x \in Range(Col(t, c_order_date)) : notna(x)}}
MinTs(t) == CHOOSE m \in TsValues(t) : \A o \in TsValues(t) : m <= o
MaxTs(t) == CHOOSE m \in TsValues(t) : \A o \in TsValues(t) : m >= o

\* The value the script gives st.date_input, as the widget returns it untouched
DefaultDateRange(t) == <<DateOf(MinTs(t)), DateOf(MaxTs(t))>>

\* What st.date_input can return: the default, a range the user picked, or
\* the start alone while the range is half picked
DateRanges(t) ==
  IF TsValues(t) = {} THEN {<<>>}
  ELSE {DefaultDateRange(t)}
       \cup {r \in (1..MaxDay) \X (1..MaxDay) : r[1] <= r[2]}
       \cup {<<a>> : a \in 1..MaxDay}

\* options of a multiselect: the column's distinct non-null values
Options(t, c) == IF HasCol(t, c) THEN {v \in Range(Col(t, c)) : notna(v)} ELSE {}

Selections(t) ==
  [date_range : DateRanges(t),
   cats : SUBSET Options(t, c_category),
   regions : SUBSET Options(t, c_region),
   payments : SUBSET Options(t, c_payment_method)]

\* ---------------------------------------------------------- apply filters
\* (df_work["order_date"] >= start) & (df_work["order_date"] <= end)
date_mask(t, start, end) ==
  [i \in 1..NRows(t) |->
     LET v == t.rows[i][c_order_date]
     IN v.k = "ts" /\ v.n >= start /\ v.n <= end]

\* A variant of filter_date that filters from the start when one end is picked
filter_date_half(t, sel) ==
  IF Len(sel.date_range) = 2
  THEN BoolIndex(t, date_mask(t, DateToTs(sel.date_range[1]), DateToTs(sel.date_range[2])))
  ELSE IF Len(sel.date_range) = 1
  THEN BoolIndex(t, date_mask(t, DateToTs(sel.date_range[1]), DateToTs(MaxDay + 1)))
  ELSE t

filter_date(t, sel) ==
  IF Len(sel.date_range) = 2
  THEN BoolIndex(t, date_mask(t, DateToTs(sel.date_range[1]), DateToTs(sel.date_range[2])))
  ELSE t

\* df_work[df_work[c].isin(picked)] when something is picked
filter_isin(t, c, picked) ==
  IF picked # {} THEN BoolIndex(t, [i \in 1..NRows(t) |-> t.rows[i][c] \in picked]) ELSE t

\* The frame df_work is bound to after the filters
apply_filters(t, sel) ==
  filter_isin(filter_isin(filter_isin(filter_date(t, sel),
              c_category, sel.cats), c_region, sel.regions),
              c_payment_method, sel.payments)

\* ------------------------------------------------------ discount analysis
\* (x * 100).round().astype(int): halves go to the even neighbour
round_percent(v) ==
  LET x == v.n * 100
      k == x \div Scale
      r == x % Scale
  IN IF 2 * r > Scale \/ (2 * r = Scale /\ k % 2 = 1) THEN Whole(k + 1) ELSE Whole(k)

\* The series disc of the discount analysis
analysis_discount(t) == percent_to_fraction(numeric_or_zero(Col(t, c_discount)))

\* df_work after the discount analysis added its two columns
discount_analysis(t) ==
  LET disc == analysis_discount(t)
      w == SetCol(t, c_discount_frac, disc)
  IN SetCol(w, c_disc_bin, [i \in 1..NRows(w) |-> round_percent(disc[i])])

\* ----------------------------------------------------------------- inputs
h_Order_Date == <<"O","r","d","e","r"," ","D","a","t","e"," ">>
h_Category == <<"C","a","t","e","g","o","r","y">>
h_Quantity == <<" ","Q","u","a","n","t","i","t","y">>
h_PRICE == <<"P","R","I","C","E">>
h_Discount == <<"D","i","s","c","o","u","n","t">>
h_Sales == <<"S","a","l","e","s">>
h_Date == <<"D","a","t","e">>

TextA == Str(<<"A">>)
TextB == Str(<<"B">>)
TextX == Str(<<"x">>)
Day1 == Str(<<"1">>)
Day2 == Str(<<"2">>)
Day2Late == Str(<<"2","T","1">>)
Half == Num(Scale \div 2)

\* The files the script is run on: a header as written in the file and, for
\* each of its columns, the cells a row can hold there.
Schemas ==
  { [header |-> <<h_Order_Date, h_Category>>,
     doms |-> <<{Day1, Day2Late, TextX, Null}, {TextA, TextB}>>],
    [header |-> <<c_quantity, c_price, c_discount>>,
     doms |-> <<{Whole(1), Whole(2)}, {Whole(5), Whole(10)}, {Whole(0), Whole(50)}>>],
    [header |-> <<h_Quantity, h_PRICE, h_Discount, c_category>>,
     doms |-> <<{Whole(2)}, {Whole(10)}, {Half, Whole(1), Whole(50)}, {TextA, TextB}>>],
    [header |-> <<c_quantity, c_price>>,
     doms |-> <<{Inf(1), Whole(2), TextX}, {Whole(0), Whole(10)}>>],
    [header |-> <<h_Sales, c_quantity, c_price>>,
     doms |-> <<{Whole(3), TextX, Null}, {Whole(2)}, {Whole(10)}>>],
    [header |-> <<c_price, c_total, c_amount>>,
     doms |-> <<{Whole(10)}, {Whole(4), TextX}, {Whole(5), Null}>>],
    [header |-> <<c_order_total, h_Date, c_payment_method>>,
     doms |-> <<{Whole(7), Str(<<"7">>)}, {Day2}, {TextA, TextB}>>],
    [header |-> <<c_order_date, c_date, c_region>>,
     doms |-> <<{Day1, TextX}, {Day2}, {TextA, Null}>>] }

RECURSIVE ProductRows(_)
ProductRows(doms) ==
  IF doms = <<>> THEN {<<>>}
  ELSE {<<v>> \o r : v \in Head(doms), r \in ProductRows(Tail(doms))}

SeqsUpTo(S, n) == UNION {[1..k -> S] : k \in 0..n}

Files ==
  UNION {{[header |-> sc.header, rows |-> r] : r \in SeqsUpTo(ProductRows(sc.doms), MaxRows)}
         : sc \in Schemas}

\* The arguments the script calls its helpers with
ProgramArgs == [candidates |-> date_candidates, by |-> c_category]

\* The arguments the helpers are called with on their own
HelperArgs ==
  [candidates : {date_candidates, <<c_order_date, c_date>>, <<c_date, c_order_date>>, <<>>},
   by : {c_category, c_region, c_payment_method}]

\* ------------------------------------------------------------------ state
VARIABLES
  file,            \* ecommerce_dataset.csv
  cache,           \* the entry st.cache_data keeps for load_df
  heap,            \* the DataFrame objects
  df, df_work,     \* the objects the script's names are bound to, 0: unbound
  pc,              \* where the script run is
  rebuilt,         \* a rerun has happened
  report,          \* what st.error reported in this run
  sel,             \* what the filter form returned in this run
  args,            \* the arguments of the helper calls
  total_sales, category_sales, pm_sales,
  call,            \* the last transformation called: its argument as it was
  ran              \* the stages that ran in this run

vars == <<file, cache, heap, df, df_work, pc, rebuilt, report, sel, args,
          total_sales, category_sales, pm_sales, call, ran>>

NoReport == [kind |-> "none", cause |-> "none"]
NoCall == [fn |-> "none", arg |-> 0, before |-> NoTable, ret |-> 0]
EmptyCache == [hit |-> FALSE, value |-> NoTable]
LoadErrors == {"ParserError", "UnicodeDecodeError"}

\* A cache that hands out the object it handed out before
cache_resource_hit(cached, previous) == previous

\* What a call of load_df that finds its entry in st.cache_data returns: a
\* fresh copy of the value kept (previous: the object the last call returned)
cache_data_hit(cached, previous) == cached

\* A script without st.stop() goes on to the next statement
after_load_error_continue == "dates"

\* Where the script goes after reporting a load failure: st.stop()
after_load_error == "stopped"

\* The condition the two except clauses report for the exception e
load_error_report(e) ==
  IF e = "FileNotFoundError"
  THEN [kind |-> "not_found", cause |-> e]
  ELSE [kind |-> "load_failed", cause |-> e]

Init ==
  /\ file \in Files
  /\ cache = EmptyCache
  /\ heap = <<>>
  /\ df = 0
  /\ df_work = 0
  /\ pc = "load"
  /\ rebuilt = FALSE
  /\ report = NoReport
  /\ sel = NoSelection
  /\ args = ProgramArgs
  /\ total_sales = Null
  /\ category_sales = <<>>
  /\ pm_sales = <<>>
  /\ call = NoCall
  /\ ran = {}

\* df = load_df("ecommerce_dataset.csv"), the file read or the cache hit
Load ==
  /\ pc = "load"
  /\ heap' = <<IF cache.hit
               THEN cache_data_hit(cache.value, IF df = 0 THEN NoTable ELSE heap[df])
               ELSE load_df(file)>>
  /\ cache' = IF cache.hit THEN cache ELSE [hit |-> TRUE, value |-> load_df(file)]
  /\ df' = 1
  /\ df_work' = 0
  /\ pc' = "dates"
  /\ ran' = ran \cup {"load"}
  /\ UNCHANGED <<file, rebuilt, report, sel, args, total_sales, category_sales, pm_sales, call>>

\* load_df raises e: "except FileNotFoundError" reports the missing file,
\* "except Exception as e" reports e; both end the run with st.stop()
LoadRaises ==
  /\ pc = "load"
  /\ ~cache.hit
  /\ \E e \in {"FileNotFoundError"} \cup LoadErrors : report' = load_error_report(e)
  /\ pc' = after_load_error
  /\ UNCHANGED <<file, cache, heap, df, df_work, rebuilt, sel, args,
                 total_sales, category_sales, pm_sales, call, ran>>

\* df = safe_to_datetime(df, date_candidates, new_col="order_date")
ResolveDates ==
  /\ pc = "dates"
  /\ heap' = [heap EXCEPT ![df] = safe_to_datetime(@, date_candidates, c_order_date)]
  /\ call' = [fn |-> "safe_to_datetime", arg |-> df, before |-> heap[df], ret |-> df]
  /\ pc' = "sales"
  /\ ran' = ran \cup {"dates"}
  /\ UNCHANGED <<file, cache, df, df_work, rebuilt, report, sel, args,
                 total_sales, category_sales, pm_sales>>

\* df = compute_sales(df)
ComputeSales ==
  /\ pc = "sales"
  /\ heap' = [heap EXCEPT ![df] = compute_sales(@)]
  /\ call' = [fn |-> "compute_sales", arg |-> df, before |-> heap[df], ret |-> df]
  /\ pc' = "yearmonth"
  /\ ran' = ran \cup {"sales"}
  /\ UNCHANGED <<file, cache, df, df_work, rebuilt, report, sel, args,
                 total_sales, category_sales, pm_sales>>

\* df["yearmonth"] = df["order_date"].dt.to_period("M").astype(str)
AddYearMonth ==
  /\ pc = "yearmonth"
  /\ heap' = [heap EXCEPT ![df] = add_yearmonth(@)]
  /\ pc' = "form"
  /\ UNCHANGED <<file, cache, df, df_work, rebuilt, report, sel, args,
                 total_sales, category_sales, pm_sales, call, ran>>

\* with st.sidebar.form("filters"): ...
SubmitForm ==
  /\ pc = "form"
  /\ sel' \in Selections(heap[df])
  /\ pc' = "filter"
  /\ UNCHANGED <<file, cache, heap, df, df_work, rebuilt, report, args,
                 total_sales, category_sales, pm_sales, call, ran>>

\* df_work = df.copy() and the four filters: the frame df_work ends bound to
\* is a new object (the frames in between are dropped)
ApplyFilters ==
  /\ pc = "filter"
  /\ heap' = Append(heap, apply_filters(heap[df], sel))
  /\ df_work' = Len(heap) + 1
  /\ call' = [fn |-> "apply_filters", arg |-> df, before |-> heap[df], ret |-> Len(heap) + 1]
  /\ pc' = "kpi"
  /\ ran' = ran \cup {"filter"}
  /\ UNCHANGED <<file, cache, df, rebuilt, report, sel, args,
                 total_sales, category_sales, pm_sales>>

\* total_sales = df_work["sales"].sum()
Kpis ==
  /\ pc = "kpi"
  /\ total_sales' = FSum(Col(heap[df_work], c_sales))
  /\ pc' = "charts"
  /\ ran' = ran \cup {"kpi"}
  /\ UNCHANGED <<file, cache, heap, df, df_work, rebuilt, report, sel, args,
                 category_sales, pm_sales, call>>

\* The two charts built with safe_groupby_sum
Charts ==
  /\ pc = "charts"
  /\ category_sales' =
       IF HasCol(heap[df_work], c_category)
       THEN sort_values_desc(safe_groupby_sum(heap[df_work], c_category, c_sales))
       ELSE <<>>
  /\ pm_sales' =
       IF HasCol(heap[df_work], c_payment_method)
       THEN sort_values_desc(safe_groupby_sum(heap[df_work], c_payment_method, c_sales))
       ELSE <<>>
  /\ pc' = "discount"
  /\ ran' = ran \cup {"charts"}
  /\ UNCHANGED <<file, cache, heap, df, df_work, rebuilt, report, sel, args,
                 total_sales, call>>

\* if "discount" in df_work.columns: ... df_work["_disc_bin"] = ...
DiscountAnalysis ==
  /\ pc = "discount"
  /\ heap' = IF HasCol(heap[df_work], c_discount)
             THEN [heap EXCEPT ![df_work] = discount_analysis(@)]
             ELSE heap
  /\ pc' = "done"
  /\ UNCHANGED <<file, cache, df, df_work, rebuilt, report, sel, args,
                 total_sales, category_sales, pm_sales, call, ran>>

\* Streamlit runs the script again: its names are rebound as it goes, the
\* cache entry stays
Rerun ==
  /\ pc \in {"done", "stopped"}
  /\ pc' = "load"
  /\ rebuilt' = TRUE
  /\ report' = NoReport
  /\ sel' = NoSelection
  /\ total_sales' = Null
  /\ category_sales' = <<>>
  /\ pm_sales' = <<>>
  /\ call' = NoCall
  /\ ran' = {}
  /\ UNCHANGED <<file, cache, heap, df, df_work, args>>

Next ==
  \/ Load
  \/ LoadRaises
  \/ ResolveDates
  \/ ComputeSales
  \/ AddYearMonth
  \/ SubmitForm
  \/ ApplyFilters
  \/ Kpis
  \/ Charts
  \/ DiscountAnalysis
  \/ Rerun

Spec == Init /\ [][Next]_vars

\* The script on the files whose dates are written without a time of day
HasTimeOfDay(f) ==
  \E i \in 1..Len(f.rows) : \E j \in 1..Len(f.header) :
    f.rows[i][j].k = "str" /\ SepPos(f.rows[i][j].s) > 0

InitDays == Init /\ ~HasTimeOfDay(file)

SpecDays == InitDays /\ [][Next]_vars

\* ------------------------------------------------- the helpers on their own
\* safe_to_datetime, compute_sales and safe_groupby_sum called one after the
\* other on a loaded table, with any candidate list and any dimension;
\* category_sales holds the frame safe_groupby_sum returned.
InitFn ==
  /\ file \in Files
  /\ cache = EmptyCache
  /\ heap = <<load_df(file)>>
  /\ df = 1
  /\ df_work = 0
  /\ pc = "fn_dates"
  /\ rebuilt = FALSE
  /\ report = NoReport
  /\ sel = NoSelection
  /\ args \in HelperArgs
  /\ total_sales = Null
  /\ category_sales = <<>>
  /\ pm_sales = <<>>
  /\ call = NoCall
  /\ ran = {}

FnDates ==
  /\ pc = "fn_dates"
  /\ heap' = [heap EXCEPT ![df] = safe_to_datetime(@, args.candidates, c_order_date)]
  /\ call' = [fn |-> "safe_to_datetime", arg |-> df, before |-> heap[df], ret |-> df]
  /\ pc' = "fn_sales"
  /\ UNCHANGED <<file, cache, df, df_work, rebuilt, report, sel, args,
                 total_sales, category_sales, pm_sales, ran>>

FnSales ==
  /\ pc = "fn_sales"
  /\ heap' = [heap EXCEPT ![df] = compute_sales(@)]
  /\ call' = [fn |-> "compute_sales", arg |-> df, before |-> heap[df], ret |-> df]
  /\ pc' = "fn_group"
  /\ UNCHANGED <<file, cache, df, df_work, rebuilt, report, sel, args,
                 total_sales, category_sales, pm_sales, ran>>

FnGroupby ==
  /\ pc = "fn_group"
  /\ category_sales' = safe_groupby_sum(heap[df], args.by, c_sales)
  /\ call' = [fn |-> "safe_groupby_sum", arg |-> df, before |-> heap[df], ret |-> 0]
  /\ pc' = "fn_done"
  /\ UNCHANGED <<file, cache, heap, df, df_work, rebuilt, report, sel, args,
                 total_sales, pm_sales, ran>>

NextFn ==
  \/ FnDates
  \/ FnSales
  \/ FnGroupby

SpecFn == InitFn /\ [][NextFn]_vars

\* ================================================================= claims
PosOf(t, label) == CHOOSE i \in 1..NRows(t) : t.idx[i] = label
HasCols(t, cs) == \A c \in cs : HasCol(t, c)
AfterFilter == {"kpi", "charts", "discount"}

\* "a missing or non-numeric input value counts as exactly 0"
Coerce0(v) == IF notna(to_numeric(v)) THEN to_numeric(v) ELSE FZero

\* The discount fraction the claims give row i of table b
ClaimFraction(b, i) ==
  IF ~HasCol(b, c_discount) THEN FZero
  ELSE IF \E j \in 1..NRows(b) : FGt(Coerce0(b.rows[j][c_discount]), FOne)
       THEN FDiv100(Coerce0(b.rows[i][c_discount]))
       ELSE Coerce0(b.rows[i][c_discount])

\* The sales the priority order of C1 gives row i of table b
ClaimSales(b, i) ==
  IF HasCol(b, c_sales) THEN Coerce0(b.rows[i][c_sales])
  ELSE IF HasCol(b, c_quantity) /\ HasCol(b, c_price)
  THEN FMul(FMul(Coerce0(b.rows[i][c_quantity]), Coerce0(b.rows[i][c_price])),
            FSub(FOne, ClaimFraction(b, i)))
  ELSE IF HasCol(b, c_order_total) THEN Coerce0(b.rows[i][c_order_total])
  ELSE IF HasCol(b, c_amount) THEN Coerce0(b.rows[i][c_amount])
  ELSE IF HasCol(b, c_total) THEN Coerce0(b.rows[i][c_total])
  ELSE FZero

\* The part of C1 the code keeps: the priority order of the four rules
C1_PriorityOrder ==
  (pc = "yearmonth" /\ call.fn = "compute_sales") =>
    /\ HasCol(heap[df], c_sales)
    /\ \A i \in 1..NRows(heap[df]) : heap[df].rows[i][c_sales] = ClaimSales(call.before, i)

\* C1: after compute_sales every row's sales is what the first applicable
\* rule gives (sales column; quantity * price * (1 - discount); first of
\* order_total, amount, total; 0), and it is never null nor non-numeric.
C1_Claim ==
  (pc = "yearmonth" /\ call.fn = "compute_sales") =>
    /\ HasCol(heap[df], c_sales)
    /\ \A i \in 1..NRows(heap[df]) :
         /\ heap[df].rows[i][c_sales] = ClaimSales(call.before, i)
         /\ notna(heap[df].rows[i][c_sales])
         /\ IsNumeric(heap[df].rows[i][c_sales])

\* The file of the scenario: [{2, 10, 0}, {1, 5, 50}]
ScenarioFile ==
  [header |-> <<c_quantity, c_price, c_discount>>,
   rows |-> << <<Whole(2), Whole(10), Whole(0)>>, <<Whole(1), Whole(5), Whole(50)>> >>]

\* C2: when sales comes from quantity and price, percent or fraction is
\* decided once for the table: if some discount exceeds 1 every row uses
\* raw / 100, else every row uses its raw value; the scenario's sales are 20
\* and 2.5 and its total is 22.5.
C2_TableLevelDiscount ==
  /\ (pc = "yearmonth" /\ call.fn = "compute_sales"
        /\ HasCols(call.before, {c_quantity, c_price, c_discount})
        /\ ~HasCol(call.before, c_sales)) =>
       LET b == call.before
           raw == [i \in 1..NRows(b) |-> Coerce0(b.rows[i][c_discount]).n]
           percent == \E j \in 1..NRows(b) : raw[j] > Scale
       IN \A i \in 1..NRows(b) :
            LET frac == IF percent THEN raw[i] \div 100 ELSE raw[i]
                qp == (Coerce0(b.rows[i][c_quantity]).n * Coerce0(b.rows[i][c_price]).n) \div Scale
            IN heap[df].rows[i][c_sales] = Num((qp * (Scale - frac)) \div Scale)
  /\ (file = ScenarioFile /\ pc = "yearmonth") =>
       Col(heap[df], c_sales) = <<Whole(20), Num(25 * (Scale \div 10))>>
  /\ (file = ScenarioFile /\ pc \in {"charts", "discount", "done"}) =>
       total_sales = Num(225 * (Scale \div 10))

\* C2's case: a table where percent is decided by another row than the one
\* whose raw discount is at most 1 and not 0
C2_Witness ==
  /\ pc = "yearmonth"
  /\ call.fn = "compute_sales"
  /\ HasCols(call.before, {c_quantity, c_price, c_discount})
  /\ \E i, j \in 1..NRows(call.before) :
       /\ call.before.rows[i][c_discount] = Whole(50)
       /\ call.before.rows[j][c_discount] = Whole(1)
       /\ heap[df].rows[j][c_sales] = Num(19800)

\* The rows C3 keeps: by calendar date, both ends inclusive
ClaimKeeps(t, s, i) ==
  /\ Len(s.date_range) = 2 =>
       /\ t.rows[i][c_order_date].k = "ts"
       /\ DateOf(t.rows[i][c_order_date].n) >= s.date_range[1]
       /\ DateOf(t.rows[i][c_order_date].n) <= s.date_range[2]
  /\ (s.cats # {} /\ HasCol(t, c_category)) => t.rows[i][c_category] \in s.cats
  /\ (s.regions # {} /\ HasCol(t, c_region)) => t.rows[i][c_region] \in s.regions
  /\ (s.payments # {} /\ HasCol(t, c_payment_method)) =>
       t.rows[i][c_payment_method] \in s.payments

\* C3: df_work holds exactly the rows whose order_date is on a day of
\* [start, end] (non-null, both days inclusive) and whose category, region
\* and payment_method are among the picked ones; an absent column adds no
\* condition.
C3_Claim ==
  pc \in AfterFilter =>
    heap[df_work] = BoolIndex(heap[df], [i \in 1..NRows(heap[df]) |-> ClaimKeeps(heap[df], sel, i)])

\* df_work has the columns of df and its rows are rows of df, in df's order
SubsetOf(w, t) ==
  /\ w.cols = t.cols
  /\ NRows(w) <= NRows(t)
  /\ \A i \in 1..NRows(w) :
       \E j \in 1..NRows(t) : w.idx[i] = t.idx[j] /\ w.rows[i] = t.rows[j]
  /\ \A i \in 1..(NRows(w) - 1) : w.idx[i] < w.idx[i + 1]

NothingPicked == sel.cats = {} /\ sel.regions = {} /\ sel.payments = {}

\* The date input left as the script set it, or not shown at all
DateInputUntouched ==
  sel.date_range = (IF TsValues(heap[df]) = {} THEN <<>> ELSE DefaultDateRange(heap[df]))

\* C4: the filtered table has the prepared table's columns and a subset of
\* its rows, and equals it when nothing is picked and the date input is left
\* at its default.
C4_Original ==
  pc \in AfterFilter =>
    /\ SubsetOf(heap[df_work], heap[df])
    /\ (NothingPicked /\ DateInputUntouched) => heap[df_work] = heap[df]

\* C4 as amended: the filtered table has the prepared table's columns and a
\* subset of its rows, and equals it when nothing is picked and no two-ended
\* date interval is in effect.
C4_Amended ==
  pc \in AfterFilter =>
    /\ SubsetOf(heap[df_work], heap[df])
    /\ (NothingPicked /\ Len(sel.date_range) # 2) => heap[df_work] = heap[df]

\* C4's case: dates exist, one of them null, only one end of the range is
\* picked and nothing else
C4_Witness ==
  /\ pc = "kpi"
  /\ NothingPicked
  /\ Len(sel.date_range) = 1
  /\ \E i, j \in 1..NRows(heap[df]) :
       /\ heap[df].rows[i][c_order_date].k = "null"
       /\ heap[df].rows[j][c_order_date].k = "ts"
  /\ NRows(heap[df_work]) = NRows(heap[df])

RECURSIVE SumOver(_, _)
SumOver(S, f) ==
  IF S = {} THEN 0 ELSE LET i == CHOOSE x \in S : TRUE IN f[i] + SumOver(S \ {i}, f)

\* C5: safe_groupby_sum returns nothing when `by` is no column; else one pair
\* for each distinct value of the dimension, with the total of the value
\* column over the rows that have it.
C5_GroupbySum ==
  (pc = "fn_done") =>
    LET t == heap[df]
        g == category_sales
        values == {v \in Range(Col(t, args.by)) : notna(v)}
    IN /\ ~HasCol(t, args.by) => g = <<>>
       /\ HasCol(t, args.by) =>
            /\ \A v \in values : Cardinality({j \in 1..Len(g) : g[j].key = v}) = 1
            /\ \A j \in 1..Len(g) :
                 /\ g[j].key \in values
                 /\ g[j].sum = Num(SumOver({i \in 1..NRows(t) : t.rows[i][args.by] = g[j].key},
                                           [i \in 1..NRows(t) |-> t.rows[i][c_sales].n]))

\* C5's case: a group of two rows with a sum that is not one row's value
C5_Witness ==
  /\ pc = "fn_done"
  /\ HasCol(heap[df], args.by)
  /\ NRows(heap[df]) = 2
  /\ Len(category_sales) = 1
  /\ category_sales[1].sum.n > heap[df].rows[1][c_sales].n
  /\ category_sales[1].sum.n > heap[df].rows[2][c_sales].n

\* The positions of the candidates that are columns of the table
PresentCandidates(b, cands) == {i \in 1..Len(cands) : HasCol(b, cands[i])}

\* C6: after safe_to_datetime order_date exists and holds dates or nulls: the
\* parse of the first candidate that is a column, an unparseable value null
\* in its row only; all null when no candidate is a column.  "Order Date " is
\* read as "order date", so candidates [order_date, date] give all nulls.
C6_DateResolver ==
  (pc = "fn_sales") =>
    LET b == call.before
        t == heap[df]
        present == PresentCandidates(b, args.candidates)
    IN /\ HasCol(t, c_order_date)
       /\ \A r \in 1..NRows(t) : t.rows[r][c_order_date].k \in {"ts", "null"}
       /\ present = {} => \A r \in 1..NRows(t) : t.rows[r][c_order_date] = Null
       /\ present # {} =>
            LET c == args.candidates[CHOOSE i \in present : \A o \in present : i <= o]
            IN \A r \in 1..NRows(t) :
                 /\ t.rows[r][c_order_date] = to_datetime(b.rows[r][c])
                 /\ b.rows[r][c] \in {TextX, Null} => t.rows[r][c_order_date] = Null
                 /\ b.rows[r][c] = Day1 => t.rows[r][c_order_date] = Ts(TicksPerDay)
                 /\ b.rows[r][c] = Day2Late => t.rows[r][c_order_date] = Ts(2 * TicksPerDay + 1)
       /\ (h_Order_Date \in Range(file.header) /\ args.candidates = <<c_order_date, c_date>>) =>
            /\ HasCol(b, c_order_date_sp)
            /\ present = {}
            /\ \A r \in 1..NRows(t) : t.rows[r][c_order_date] = Null

\* C6's case: a file with the column "Order Date " holding a date, resolved
\* with the candidates [order_date, date]
C6_Witness ==
  /\ pc = "fn_sales"
  /\ h_Order_Date \in Range(file.header)
  /\ args.candidates = <<c_order_date, c_date>>
  /\ \E r \in 1..NRows(call.before) : call.before.rows[r][c_order_date_sp] = Day1
  /\ \A r \in 1..NRows(heap[df]) : heap[df].rows[r][c_order_date] = Null

\* C7: a failed load is reported as "not found" exactly when the file does
\* not exist, else as "load failed" with its cause, and the run stops there:
\* no later stage has run or runs.
C7_LoadFailureHalts ==
  report.kind # "none" =>
    /\ pc = "stopped"
    /\ ran = {}
    /\ heap = <<>> /\ df = 0 /\ df_work = 0
    /\ report.kind = "not_found" <=> report.cause = "FileNotFoundError"
    /\ report.kind = "load_failed" <=> report.cause \in LoadErrors

\* C7's case: a load that failed on a rerun, for another reason than a
\* missing file
C7_Witness ==
  /\ rebuilt
  /\ pc = "stopped"
  /\ report.kind = "load_failed"

\* Table a is table b with column c assigned and nothing else changed
SameExcept(a, b, c) ==
  /\ Range(a.cols) = Range(b.cols) \cup {c}
  /\ a.idx = b.idx
  /\ \A i \in 1..NRows(b) : \A x \in Range(b.cols) \ {c} : a.rows[i][x] = b.rows[i][x]

\* C8: each transformation leaves the table it is given as it was and
\* returns its result as a new table.
C8_Original ==
  (pc \in {"sales", "yearmonth"} \cup AfterFilter) =>
    /\ heap[call.arg] = call.before
    /\ call.ret # call.arg

\* C8 as amended: the filters leave the table they are given as it was and
\* return a new table; safe_to_datetime and compute_sales assign their
\* output column (order_date, sales) in the table they are given, change
\* nothing else of it, and return that same table.
C8_Amended ==
  /\ pc = "sales" =>
       /\ call.fn = "safe_to_datetime"
       /\ call.ret = call.arg
       /\ SameExcept(heap[call.arg], call.before, c_order_date)
  /\ pc = "yearmonth" =>
       /\ call.fn = "compute_sales"
       /\ call.ret = call.arg
       /\ SameExcept(heap[call.arg], call.before, c_sales)
  /\ pc \in AfterFilter =>
       /\ call.fn = "apply_filters"
       /\ call.ret # call.arg
       /\ heap[call.arg] = call.before

\* C8's case: compute_sales has just been given a table with a quantity that
\* is no number, and added the sales column to it
C8_Witness ==
  /\ pc = "yearmonth"
  /\ ~HasCol(call.before, c_sales)
  /\ HasCol(call.before, c_quantity)
  /\ HasCol(heap[call.arg], c_sales)
  /\ \E i \in 1..NRows(call.before) : call.before.rows[i][c_quantity] = TextX

\* What a rebuild ends with, from the base table and the selection alone
RebuildResult(base, s) ==
  LET prep == add_yearmonth(compute_sales(safe_to_datetime(base, date_candidates, c_order_date)))
      w == apply_filters(prep, s)
  IN IF HasCol(w, c_discount) THEN discount_analysis(w) ELSE w

\* C9: over any reruns the cached table stays the table first loaded, every
\* rebuild starts from it, and what a rebuild ends with depends on it and on
\* that rebuild's selection alone.
C9_CacheImmutable ==
  /\ cache.hit => cache.value = load_df(file)
  /\ pc = "dates" => heap[df] = load_df(file)
  /\ pc = "done" => heap[df_work] = RebuildResult(load_df(file), sel)

\* C9's case: a later rebuild that removed rows and added the discount
\* columns, after an earlier one added columns too
C9_Witness ==
  /\ rebuilt
  /\ pc = "done"
  /\ NRows(heap[df_work]) < NRows(cache.value)
  /\ HasCol(heap[df_work], c_disc_bin)
  /\ ~HasCol(cache.value, c_sales)

\* C10: with quantity, price and discount columns and no sales column, the
\* discount fraction the analysis gives a kept row is the one compute_sales
\* derived that row's sales with.
C10_Claim ==
  (pc = "done" /\ HasCols(cache.value, {c_quantity, c_price, c_discount})
     /\ ~HasCol(cache.value, c_sales)) =>
    \A i \in 1..NRows(heap[df_work]) :
      heap[df_work].rows[i][c_discount_frac] =
        sales_discount(heap[df])[PosOf(heap[df], heap[df_work].idx[i])]
====
